---- MODULE Spec2Model ----
(***************************************************************************)
(* The BM25 search index of mcp-docs-server (src/src/utils/indexer.ts) and *)
(* the cache and tool layer that owns it (src/src/utils/cache.ts,          *)
(* src/unnamed/part_004).                                                  *)
(*                                                                         *)
(* Text is a TLA+ string and a character is a string of length 1.  TLA+    *)
(* strings cannot hold a backtick, so the backtick of the Markdown         *)
(* patterns is written "~" in every text of the model (BACKTICK).          *)
(* Real numbers are exact fractions [num, den] where the code divides and  *)
(* fixed-point integers where it takes a logarithm.                        *)
(***************************************************************************)
EXTENDS Integers, Sequences, FiniteSets, TLC

(***************************************************************************)
(* Characters and strings (the JavaScript string primitives the code uses) *)
(***************************************************************************)
\* String.prototype.charAt at the 1-based position i: "" outside the string
CharAt(t, i) == IF i >= 1 /\ i <= Len(t) THEN SubSeq(t, i, i) ELSE ""

\* the characters at the 1-based positions i..j that exist (String.prototype.slice)
Substr(t, i, j) ==
    LET from == IF i < 1 THEN 1 ELSE i
        to == IF j > Len(t) THEN Len(t) ELSE j
    IN IF to < from THEN "" ELSE SubSeq(t, from, to)

\* the least element of a non-empty set of integers
MinOf(S) == CHOOSE x \in S : \A y \in S : x <= y

\* the least position >= p whose character is not in cls, Len(t) + 1 when there is none
FirstNotIn(t, p, cls) ==
    LET Least(hits) == IF hits = {} THEN Len(t) + 1 ELSE MinOf(hits)
    IN Least({j \in p..Len(t) : SubSeq(t, j, j) \notin cls})

LOWER == "abcdefghijklmnopqrstuvwxyz"

UPPER == "ABCDEFGHIJKLMNOPQRSTUVWXYZ"

BACKTICK == "~"

LowerLetters == {CharAt(LOWER, i) : i \in 1..Len(LOWER)}

UpperLetters == {CharAt(UPPER, i) : i \in 1..Len(UPPER)}

\* [A-Za-z0-9_], the class of TOKEN_RE and of \w
WordChars ==
    LowerLetters \cup UpperLetters \cup {"0", "1", "2", "3", "4", "5", "6", "7", "8", "9"} \cup {"_"}

\* \s
SpaceChars == {" ", "\n", "\t"}

LowerOf == [c \in UpperLetters |-> CharAt(LOWER, CHOOSE i \in 1..Len(UPPER) : CharAt(UPPER, i) = c)]

LowerChar(c) == IF c \in UpperLetters THEN LowerOf[c] ELSE c

\* String.prototype.toLowerCase, character by character
RECURSIVE toLowerCase(_)
toLowerCase(t) ==
    LET Halves(h) == toLowerCase(SubSeq(t, 1, h)) \o toLowerCase(SubSeq(t, h + 1, Len(t)))
    IN IF Len(t) = 0 THEN ""
       ELSE IF Len(t) = 1 THEN LowerChar(t)
       ELSE Halves(Len(t) \div 2)

\* text.startsWith(p, at the 1-based position i)
StartsWithAt(t, p, i) == i + Len(p) - 1 <= Len(t) /\ Substr(t, i, i + Len(p) - 1) = p

\* text.indexOf(p, from): the least 1-based position >= i where p occurs, 0 when none
\* (JavaScript's -1)
IndexOfFrom(t, p, i) ==
    LET Least(hits) == IF hits = {} THEN 0 ELSE MinOf(hits)
    IN Least({j \in i..(Len(t) - Len(p) + 1) : Substr(t, j, j + Len(p) - 1) = p})

\* Array.prototype.join
RECURSIVE Join(_, _)
Join(parts, sep) ==
    IF Len(parts) = 0 THEN ""
    ELSE IF Len(parts) = 1 THEN parts[1]
    ELSE parts[1] \o sep \o Join(Tail(parts), sep)

\* a Map as the function from its keys to their values
EmptyMap == [t \in {} |-> 0]

\* Map.prototype.get(key) || dflt
MapGet(m, key, dflt) == IF key \in DOMAIN m THEN m[key] ELSE dflt

\* Map.prototype.set
MapSet(m, key, v) == [x \in DOMAIN m \cup {key} |-> IF x = key THEN v ELSE m[x]]

\* Array.prototype.includes
Includes(seq, x) == \E i \in 1..Len(seq) : seq[i] = x

\* String.prototype.split on a non-empty separator string
RECURSIVE SplitOn(_, _)
SplitOn(t, sep) ==
    LET Cut(p) == IF p = 0 THEN <<t>>
                  ELSE <<Substr(t, 1, p - 1)>> \o SplitOn(Substr(t, p + Len(sep), Len(t)), sep)
    IN Cut(IndexOfFrom(t, sep, 1))

UpperOf == [c \in LowerLetters |-> CharAt(UPPER, CHOOSE i \in 1..Len(LOWER) : CharAt(LOWER, i) = c)]

UpperChar(c) == IF c \in LowerLetters THEN UpperOf[c] ELSE c

\* String.prototype.trim
Trim(t) ==
    LET Between(kept) ==
            IF kept = {} THEN ""
            ELSE SubSeq(t, MinOf(kept), CHOOSE x \in kept : \A y \in kept : y <= x)
    IN Between({j \in 1..Len(t) : SubSeq(t, j, j) \notin SpaceChars})

(***************************************************************************)
(* Vocabulary: STOP_WORDS and PRESERVE_TERMS (src/unnamed/part_004, 5-35)  *)
(***************************************************************************)
STOP_WORDS ==
    { "a", "about", "above", "after", "again", "against", "all", "am", "an", "and",
      "any", "are", "as", "at", "be", "because", "been", "before", "being", "below",
      "between", "both", "but", "by", "can", "could", "did", "do", "does", "doing",
      "down", "during", "each", "few", "for", "from", "further", "had", "has",
      "have", "having", "he", "her", "here", "hers", "herself", "him", "himself",
      "his", "how", "i", "if", "in", "into", "is", "it", "its", "itself", "just",
      "me", "more", "most", "my", "myself", "no", "nor", "not", "now", "of", "off",
      "on", "once", "only", "or", "other", "our", "ours", "ourselves", "out", "over",
      "own", "same", "she", "should", "so", "some", "such", "than", "that", "the",
      "their", "theirs", "them", "themselves", "then", "there", "these", "they",
      "this", "those", "through", "to", "too", "under", "until", "up", "very", "was",
      "we", "were", "what", "when", "where", "which", "while", "who", "whom", "why",
      "will", "with", "would", "you", "your", "yours", "yourself", "yourselves",
      "also", "come", "even", "get", "got", "go", "going", "gone", "know", "like",
      "make", "made", "may", "might", "much", "must", "need", "new", "one", "see",
      "take", "thing", "think", "use", "used", "using", "want", "way", "well",
      "work", "year", "first", "last", "long", "great", "little", "old", "right",
      "big", "high", "small", "large", "next", "early", "young", "important",
      "public", "bad", "good" }

PRESERVE_TERMS ==
    { "mcp", "json", "rpc", "sse", "stdio", "http", "https", "uri", "url", "api",
      "sdk", "cli", "llm", "ai", "ml", "aws", "pydantic", "zod", "typescript", "ts" }

(***************************************************************************)
(* PorterStemmer.stem of the `natural` package (indexer.ts line 8).  The   *)
(* package is not part of the repository; the model gives its result for   *)
(* the words of the model's texts (StemTable: the published Porter         *)
(* algorithm's output for each) and leaves every other word unchanged,     *)
(* which is what the algorithm does to the rest of the model's words.      *)
(***************************************************************************)
StemTable ==
    [w \in { "tools", "running", "servers", "resources", "works", "makes", "queries",
             "streaming", "functions", "happy", "uses", "guide", "expose", "docs", "links",
             "example", "nocontent", "notitle", "xyznonexistent" } |->
        CASE w = "tools" -> "tool"
          [] w = "running" -> "run"
          [] w = "servers" -> "server"
          [] w = "resources" -> "resourc"
          [] w = "works" -> "work"
          [] w = "makes" -> "make"
          [] w = "queries" -> "queri"
          [] w = "streaming" -> "stream"
          [] w = "functions" -> "function"
          [] w = "happy" -> "happi"
          [] w = "uses" -> "us"
          [] w = "guide" -> "guid"
          [] w = "expose" -> "expos"
          [] w = "docs" -> "doc"
          [] w = "links" -> "link"
          [] w = "example" -> "exampl"
          [] w = "nocontent" -> "nocont"
          [] w = "notitle" -> "notitl"
          [] w = "xyznonexistent" -> "xyznonexist"]

PorterStem(w) == IF w \in DOMAIN StemTable THEN StemTable[w] ELSE w

(***************************************************************************)
(* tokenize (indexer.ts 56-107)                                            *)
(***************************************************************************)
\* the end of the run of [A-Za-z0-9_] that starts at i
WordRunEnd(t, i) == FirstNotIn(t, i + 1, WordChars) - 1

\* the end of the match of [A-Za-z0-9_]+(?:-[A-Za-z0-9_]+)* that starts at i
RECURSIVE TokenMatchEnd(_, _)
TokenMatchEnd(t, i) ==
    LET Continue(e) ==
            IF e + 2 <= Len(t) /\ CharAt(t, e + 1) = "-" /\ CharAt(t, e + 2) \in WordChars
            THEN TokenMatchEnd(t, e + 2)
            ELSE e
    IN Continue(WordRunEnd(t, i))

\* the elements of a finite set of integers in increasing order
SortedSeq(S) == [i \in 1..Cardinality(S) |-> CHOOSE x \in S : Cardinality({y \in S : y < x}) = i - 1]

\* text.match(TOKEN_RE) || [] : every match, leftmost first.  A match starts where a run
\* of [A-Za-z0-9_] starts, unless the run follows a hyphen that follows such a character:
\* that run belongs to the match before it.
MatchTokenRe(t) ==
    LET Matches(starts) == [i \in 1..Len(starts) |-> Substr(t, starts[i], TokenMatchEnd(t, starts[i]))]
    IN Matches(SortedSeq({s \in 1..Len(t) :
                             /\ CharAt(t, s) \in WordChars
                             /\ CharAt(t, s - 1) \notin WordChars
                             /\ ~(CharAt(t, s - 1) = "-" /\ CharAt(t, s - 2) \in WordChars)}))

\* /[a-z][A-Z]/.test(part)
HasCamelBoundary(part) ==
    \E i \in 1..(Len(part) - 1) :
        CharAt(part, i) \in LowerLetters /\ CharAt(part, i + 1) \in UpperLetters

\* part.split(CAMELCASE_RE): cut between a lower-case and an upper-case letter
RECURSIVE SplitCamel(_)
SplitCamel(part) ==
    IF HasCamelBoundary(part)
    THEN LET Cut(p) == <<Substr(part, 1, p)>> \o SplitCamel(Substr(part, p + 1, Len(part)))
         IN Cut(MinOf({i \in 1..(Len(part) - 1) :
                         CharAt(part, i) \in LowerLetters /\ CharAt(part, i + 1) \in UpperLetters}))
    ELSE <<part>>

\* lines 80-90 without the stopword tests
TokenizeCamelPartKeepingStopWords(camelPart) ==
    IF toLowerCase(camelPart) \in PRESERVE_TERMS THEN <<toLowerCase(camelPart)>>
    ELSE <<PorterStem(toLowerCase(camelPart))>>

\* lines 80-90: what the loop body pushes for one sub-part of a camel-case part
TokenizeCamelPart(camelPart) ==
    LET Push(camelLower, stemmed) ==
            IF camelLower # "" /\ camelLower \notin STOP_WORDS
            THEN IF camelLower \in PRESERVE_TERMS THEN <<camelLower>>
                 ELSE IF stemmed \notin STOP_WORDS THEN <<stemmed>>
                 ELSE <<>>
            ELSE <<>>
        PushLower(camelLower) == Push(camelLower, PorterStem(camelLower))
    IN PushLower(toLowerCase(camelPart))

\* lines 79-91: what the loop over camelParts[lo..hi] pushes, in order
RECURSIVE TokenizeCamelParts(_, _, _)
TokenizeCamelParts(camelParts, lo, hi) ==
    LET Halves(mid) == TokenizeCamelParts(camelParts, lo, mid) \o TokenizeCamelParts(camelParts, mid + 1, hi)
    IN IF lo > hi THEN <<>>
       ELSE IF lo = hi THEN TokenizeCamelPart(camelParts[lo])
       ELSE Halves((lo + hi) \div 2)

\* the loop body without lines 70-74: a preserved term is treated as any other part
TokenizePartPreservingNothing(part, tokens) ==
    IF toLowerCase(part) = "" \/ toLowerCase(part) \in STOP_WORDS THEN <<>>
    ELSE IF HasCamelBoundary(part)
    THEN TokenizeCamelParts(SplitCamel(part), 1, Len(SplitCamel(part)))
         \o (IF PorterStem(toLowerCase(part)) \notin STOP_WORDS
                /\ ~Includes(tokens \o TokenizeCamelParts(SplitCamel(part), 1, Len(SplitCamel(part))),
                             PorterStem(toLowerCase(part)))
             THEN <<PorterStem(toLowerCase(part))>> ELSE <<>>)
    ELSE IF PorterStem(toLowerCase(part)) \notin STOP_WORDS THEN <<PorterStem(toLowerCase(part))>>
    ELSE <<>>

\* the loop body without its stopword tests
TokenizePartKeepingStopWords(part, tokens) ==
    LET Push(partLower) ==
            IF partLower = "" THEN <<>>
            ELSE IF partLower \in PRESERVE_TERMS THEN <<partLower>>
            ELSE <<PorterStem(partLower)>>
    IN Push(toLowerCase(part))

\* lines 64-103: what the loop body pushes for one part, tokens being what was pushed
\* before it
TokenizePart(part, tokens) ==
    LET PushOriginal(pushed, stemmedOriginal) ==
            IF stemmedOriginal \notin STOP_WORDS /\ ~Includes(tokens \o pushed, stemmedOriginal)
            THEN Append(pushed, stemmedOriginal)
            ELSE pushed
        PushStemmed(stemmed) == IF stemmed \notin STOP_WORDS THEN <<stemmed>> ELSE <<>>
        Camel(camelParts) == TokenizeCamelParts(camelParts, 1, Len(camelParts))
        Push(partLower) ==
            IF partLower = "" \/ partLower \in STOP_WORDS THEN <<>>
            ELSE IF partLower \in PRESERVE_TERMS THEN <<partLower>>
            ELSE IF HasCamelBoundary(part)
                 THEN PushOriginal(Camel(SplitCamel(part)), PorterStem(partLower))
                 ELSE PushStemmed(PorterStem(partLower))
    IN Push(toLowerCase(part))

\* lines 60-104: what the loop pushes for parts[lo..hi], in order, tokens being what was
\* pushed before parts[lo]
RECURSIVE TokenizeParts(_, _, _, _)
TokenizeParts(parts, lo, hi, tokens) ==
    LET Then(first) == first \o TokenizeParts(parts, ((lo + hi) \div 2) + 1, hi, tokens \o first)
    IN IF lo > hi THEN <<>>
       ELSE IF lo = hi THEN TokenizePart(parts[lo], tokens)
       ELSE Then(TokenizeParts(parts, lo, (lo + hi) \div 2, tokens))

\* lines 60-62: the parts of matches[lo..hi] in order, each match split on hyphens
RECURSIVE SplitMatches(_, _, _)
SplitMatches(matches, lo, hi) ==
    LET Parts(token) == IF IndexOfFrom(token, "-", 1) # 0 THEN SplitOn(token, "-") ELSE <<token>>
        Halves(mid) == SplitMatches(matches, lo, mid) \o SplitMatches(matches, mid + 1, hi)
    IN IF lo > hi THEN <<>>
       ELSE IF lo = hi THEN Parts(matches[lo])
       ELSE Halves((lo + hi) \div 2)

\* lines 64-103: the loop over the parts, from an empty `tokens`
TokenizeAll(parts) == TokenizeParts(parts, 1, Len(parts), <<>>)

\* lines 60-62: the parts of every match, in order
SplitAll(matches) == SplitMatches(matches, 1, Len(matches))

\* tokenize (lines 56-107)
tokenize(text) == TokenizeAll(SplitAll(MatchTokenRe(text)))

\* the loop run to i < tokens.length, the last token paired with the first
generateBigramsWrapping(tokens) ==
    [i \in 1..Len(tokens) |-> tokens[i] \o "_" \o tokens[(i % Len(tokens)) + 1]]

\* generateBigrams (indexer.ts 45-51)
generateBigrams(tokens) ==
    [i \in 1..(IF Len(tokens) = 0 THEN 0 ELSE Len(tokens) - 1) |-> tokens[i] \o "_" \o tokens[i + 1]]

(***************************************************************************)
(* The Markdown patterns (indexer.ts 15-18) and extractMatches (136-144).  *)
(* Each XxxExec(text, from) is regex.exec with lastIndex = from - 1: the   *)
(* leftmost match that starts at the 1-based position from or later, as    *)
(* [found, last, all, g1]: last is the match's last position, all is       *)
(* match[0] and g1 is match[1].                                            *)
(***************************************************************************)
NoMatch == [found |-> FALSE, last |-> 0, all |-> "", g1 |-> ""]

\* how many characters of the class cls follow each other from position p on
RunLen(t, p, cls) == IF p > Len(t) THEN 0 ELSE FirstNotIn(t, p, cls) - p

\* the last position of the line that holds position q
LineEnd(t, q) ==
    LET Before(breaks) == IF breaks = {} THEN Len(t) ELSE MinOf(breaks) - 1
    IN Before({j \in (q + 1)..Len(t) : SubSeq(t, j, j) = "\n"})

\* MD_HEADER_RE = /^#{1,6}\s+(.+)$/gm tried at position i alone
HeaderMatchAt(t, i) ==
    LET atLineStart == i = 1 \/ CharAt(t, i - 1) = "\n"
        Captured(q, e) == [found |-> TRUE, last |-> e, all |-> Substr(t, i, e), g1 |-> Substr(t, q, e)]
        Capture(q) == Captured(q, LineEnd(t, q))
        \* \s+ is greedy and gives characters back until (.+) finds one to take
        Backtrack(p, cands) ==
            IF cands # {} THEN Capture(p + (CHOOSE x \in cands : \A y \in cands : y <= x)) ELSE NoMatch
        Spaces(p, r) == Backtrack(p, {l \in 1..r : p + l <= Len(t) /\ CharAt(t, p + l) # "\n"})
        Hashes(h) == IF atLineStart /\ h >= 1 /\ h <= 6 THEN Spaces(i + h, RunLen(t, i + h, SpaceChars))
                     ELSE NoMatch
    IN Hashes(RunLen(t, i, {"#"}))

\* MD_CODE_BLOCK_RE = /```[\w]*\n([\s\S]*?)```/g tried at position i alone
CodeBlockMatchAt(t, i) ==
    LET fence == BACKTICK \o BACKTICK \o BACKTICK
        Close(n, close) ==
            IF StartsWithAt(t, fence, i) /\ n <= Len(t) /\ CharAt(t, n) = "\n" /\ close # 0
            THEN [found |-> TRUE, last |-> close + 2, all |-> Substr(t, i, close + 2),
                  g1 |-> Substr(t, n + 1, close - 1)]
            ELSE NoMatch
        Open(n) == Close(n, IndexOfFrom(t, fence, n + 1))
    IN Open(i + 3 + RunLen(t, i + 3, WordChars))

\* MD_INLINE_CODE_RE = /`([^`]+)`/g tried at position i alone
InlineCodeMatchAt(t, i) ==
    LET Close(close) ==
            IF CharAt(t, i) = BACKTICK /\ close >= i + 2
            THEN [found |-> TRUE, last |-> close, all |-> Substr(t, i, close),
                  g1 |-> Substr(t, i + 1, close - 1)]
            ELSE NoMatch
    IN Close(IndexOfFrom(t, BACKTICK, i + 1))

\* MD_LINK_TEXT_RE = /\[([^\]]+)\]\([^)]+\)/g tried at position i alone
LinkTextMatchAt(t, i) ==
    LET Close(c, d) ==
            IF CharAt(t, i) = "[" /\ c >= i + 2 /\ c + 1 <= Len(t) /\ CharAt(t, c + 1) = "("
               /\ d >= c + 3
            THEN [found |-> TRUE, last |-> d, all |-> Substr(t, i, d), g1 |-> Substr(t, i + 1, c - 1)]
            ELSE NoMatch
        Bracket(c) == Close(c, IndexOfFrom(t, ")", c + 2))
    IN Bracket(IndexOfFrom(t, "]", i + 1))

MatchAt(t, regex, i) ==
    CASE regex = "MD_HEADER_RE" -> HeaderMatchAt(t, i)
      [] regex = "MD_CODE_BLOCK_RE" -> CodeBlockMatchAt(t, i)
      [] regex = "MD_INLINE_CODE_RE" -> InlineCodeMatchAt(t, i)
      [] regex = "MD_LINK_TEXT_RE" -> LinkTextMatchAt(t, i)

\* regex.exec(text) with lastIndex = from - 1
RegexExec(t, regex, from) ==
    LET Leftmost(starts) == IF starts = {} THEN NoMatch ELSE MatchAt(t, regex, MinOf(starts))
    IN Leftmost({j \in from..Len(t) : MatchAt(t, regex, j).found})

\* lines 140-142: the loop over regex.exec, pushing match[1] || match[0]
RECURSIVE ExecLoop(_, _, _)
ExecLoop(t, regex, from) ==
    LET Push(match) ==
            IF ~match.found THEN <<>>
            ELSE <<IF match.g1 # "" THEN match.g1 ELSE match.all>> \o ExecLoop(t, regex, match.last + 1)
    IN Push(RegexExec(t, regex, from))

extractMatches(text, regex) == Join(ExecLoop(text, regex, 1), " ")

(***************************************************************************)
(* text-processor.ts (src/unnamed/part_002)                                *)
(***************************************************************************)
\* s.replace(WHITESPACE_RE, " ") on the positions lo..hi: every run of \s becomes one space
RECURSIVE CollapseWhitespace(_, _, _)
CollapseWhitespace(t, lo, hi) ==
    LET One(c) == IF c \notin SpaceChars THEN c
                  ELSE IF lo > 1 /\ SubSeq(t, lo - 1, lo - 1) \in SpaceChars THEN ""
                  ELSE " "
        Halves(mid) == CollapseWhitespace(t, lo, mid) \o CollapseWhitespace(t, mid + 1, hi)
    IN IF lo > hi THEN ""
       ELSE IF lo = hi THEN One(SubSeq(t, lo, lo))
       ELSE Halves((lo + hi) \div 2)

\* normalize (part_002 14-16)
normalize(s) == Trim(CollapseWhitespace(s, 1, Len(s)))

\* slug.replace(/[-_]/g, " ")
RECURSIVE DashesToSpaces(_)
DashesToSpaces(t) ==
    LET Halves(h) == DashesToSpaces(SubSeq(t, 1, h)) \o DashesToSpaces(SubSeq(t, h + 1, Len(t)))
    IN IF Len(t) = 0 THEN ""
       ELSE IF Len(t) = 1 THEN (IF t \in {"-", "_"} THEN " " ELSE t)
       ELSE Halves(Len(t) \div 2)

\* titleFromUrl (part_002 21-38)
titleFromUrl(url) ==
    LET Cased(words) ==
            Join([i \in 1..Len(words) |->
                     UpperChar(CharAt(words[i], 1)) \o Substr(words[i], 2, Len(words[i]))], " ")
        OrDefault(cased) == IF cased # "" THEN cased ELSE "Documentation"
        Title(slug) == OrDefault(Cased(SplitOn(Trim(DashesToSpaces(slug)), " ")))
        Slug(path, parts) == Title(IF Len(parts) > 0 THEN parts[Len(parts)] ELSE path)
        Parts(path, allParts) ==
            Slug(path, IF Len(allParts) > 0 /\ StartsWithAt(allParts[Len(allParts)], "index.", 1)
                       THEN SubSeq(allParts, 1, Len(allParts) - 1)
                       ELSE allParts)
        Path(path) == Parts(path, SelectSeq(SplitOn(path, "/"), LAMBDA x : x # ""))
    IN Path(IF IndexOfFrom(url, "://", 1) # 0 THEN SplitOn(url, "://")[2] ELSE url)

\* formatDisplayTitle (part_002 48-66); extracted is never null here (fetchAndClean gives a string)
formatDisplayTitle(url, extracted, titles) ==
    LET curated == MapGet(titles, url, "")
        NoTitle(t, tLower) == t = "" \/ tLower = "index" \/ tLower = "index.md" \/ (Len(t) >= 3 /\ Substr(t, Len(t) - 2, Len(t)) = ".md")
        Extracted(t) ==
            IF extracted = "" \/ NoTitle(t, toLowerCase(t)) THEN titleFromUrl(url) ELSE normalize(t)
    IN IF curated # "" THEN normalize(curated) ELSE Extracted(Trim(extracted))

\* base.replace(/(\w)2(\w)/gi, "$1 to $2") (part_002 76)
RECURSIVE TwoToWord(_, _)
TwoToWord(t, i) ==
    LET Replace(m) == Substr(t, i, m) \o " to " \o CharAt(t, m + 2) \o TwoToWord(t, m + 3)
        Leftmost(starts) == IF starts = {} THEN Substr(t, i, Len(t)) ELSE Replace(MinOf(starts))
    IN Leftmost({j \in i..(Len(t) - 2) :
                    /\ CharAt(t, j) \in WordChars
                    /\ CharAt(t, j + 1) = "2"
                    /\ CharAt(t, j + 2) \in WordChars})

\* lines 79-85 of indexTitleVariants: the distinct (case-insensitive) non-empty variants
RECURSIVE DistinctVariants(_, _)
DistinctVariants(candidates, variants) ==
    LET Known(lower) == \E i \in 1..Len(variants) : toLowerCase(variants[i]) = lower
        Push(normalized) ==
            IF normalized # "" /\ ~Known(toLowerCase(normalized)) THEN Append(variants, normalized)
            ELSE variants
    IN IF Len(candidates) = 0 THEN variants
       ELSE DistinctVariants(Tail(candidates), Push(normalize(Head(candidates))))

\* indexTitleVariants (part_002 71-88)
indexTitleVariants(displayTitle, url) ==
    LET base == displayTitle
        slug == titleFromUrl(url)
        variant == TwoToWord(base, 1)
    IN Join(DistinctVariants(<<base, variant, slug>>, <<>>), " ")

(***************************************************************************)
(* url-validator.ts                                                        *)
(***************************************************************************)
ALLOWED_DOMAINS == <<"https://modelcontextprotocol.io/">>

\* isUrlAllowed comparing with the prefixes less their last character, the slash
isUrlAllowedByHostPrefix(url) ==
    url # "" /\ StartsWithAt(url, "https://modelcontextprotocol.io", 1)

\* isUrlAllowed (url-validator.ts 21-24)
isUrlAllowed(url) ==
    url # "" /\ \E i \in 1..Len(ALLOWED_DOMAINS) : StartsWithAt(url, ALLOWED_DOMAINS[i], 1)

\* validateUrl (url-validator.ts 32-46): [ok, url]; ok = FALSE is the thrown URLValidationError
validateUrl(url) ==
    LET Checked(processedUrl) ==
            IF isUrlAllowed(processedUrl) THEN [ok |-> TRUE, url |-> processedUrl]
            ELSE [ok |-> FALSE, url |-> url]
    IN Checked(IF ~StartsWithAt(url, "http://", 1) /\ ~StartsWithAt(url, "https://", 1)
               THEN "https://modelcontextprotocol.io" \o (IF StartsWithAt(url, "/", 1) THEN "" ELSE "/") \o url
               ELSE url)

(***************************************************************************)
(* doc-fetcher.ts (src/unnamed/part_003).  fetchUrl's outcome is the       *)
(* record response = [ok, text]: ok = FALSE is a thrown error (network     *)
(* failure, timeout, HTTP status not ok), otherwise text is the body.      *)
(***************************************************************************)
\* MD_LINK_RE = /\[([^\]]+)\]\(([^)]+)\)/g (part_003 8) tried at position i alone
LinkMatchAt(t, i) ==
    LET Close(c, d) ==
            IF CharAt(t, i) = "[" /\ c >= i + 2 /\ CharAt(t, c + 1) = "(" /\ d >= c + 3
            THEN [found |-> TRUE, last |-> d, g1 |-> Substr(t, i + 1, c - 1), g2 |-> Substr(t, c + 2, d - 1)]
            ELSE [found |-> FALSE, last |-> 0, g1 |-> "", g2 |-> ""]
        Bracket(c) == Close(c, IndexOfFrom(t, ")", c + 2))
    IN Bracket(IndexOfFrom(t, "]", i + 1))

LinkExec(t, from) ==
    LET Leftmost(starts) == LinkMatchAt(t, IF starts = {} THEN Len(t) + 1 ELSE MinOf(starts))
    IN Leftmost({j \in from..Len(t) : LinkMatchAt(t, j).found})

\* part_003 61-71: the loop over MD_LINK_RE.exec(txt); links with a URL that
\* validateUrl rejects are skipped
RECURSIVE ParseLinks(_, _)
ParseLinks(txt, from) ==
    LET Link(title, validated) ==
            IF validated.ok THEN <<[title |-> title, url |-> validated.url]>> ELSE <<>>
        Titled(g1, g2) == Link(IF g1 # "" THEN g1 ELSE g2, validateUrl(g2))
        Push(match) ==
            IF ~match.found THEN <<>>
            ELSE Titled(Trim(match.g1), Trim(match.g2)) \o ParseLinks(txt, match.last + 1)
    IN Push(LinkExec(txt, from))

\* parseLlmsTxt (part_003 54-74): [ok, links]; ok = FALSE when fetchUrl throws
parseLlmsTxt(response) ==
    IF response.ok THEN [ok |-> TRUE, links |-> ParseLinks(response.text, 1)]
    ELSE [ok |-> FALSE, links |-> <<>>]

\* validatedUrl.split("/").pop() || validatedUrl
LastSegment(url) ==
    LET Pop(segs) == IF segs[Len(segs)] # "" THEN segs[Len(segs)] ELSE url
    IN Pop(SplitOn(url, "/"))

\* fetchAndClean (part_003 144-160) for a plain-text response: [ok, requested, page].
\* ok = FALSE is a throw; requested lists the URLs fetchUrl was called with.  The bodies of the
\* model are Markdown (the test of line 150 is false of each), so lines 151-154 are not
\* modelled.
fetchAndClean(pageUrl, response) ==
    LET Fetched(validated) ==
            IF ~validated.ok
            THEN [ok |-> FALSE, requested |-> <<>>, page |-> [url |-> "", title |-> "", content |-> ""]]
            ELSE IF ~response.ok
            THEN [ok |-> FALSE, requested |-> <<validated.url>>, page |-> [url |-> "", title |-> "", content |-> ""]]
            ELSE [ok |-> TRUE, requested |-> <<validated.url>>,
                  page |-> [url |-> validated.url, title |-> LastSegment(validated.url),
                            content |-> response.text]]
    IN Fetched(validateUrl(pageUrl))

(***************************************************************************)
(* The constants of indexer.ts (20-28)                                     *)
(***************************************************************************)
\* K1 = 1.5 and B = 0.75 as fractions
K1Num == 3

K1Den == 2

BNum == 3

BDen == 4

TITLE_BOOST_EMPTY == 8

TITLE_BOOST_SHORT == 5

TITLE_BOOST_LONG == 3

SHORT_PAGE_THRESHOLD == 800

(***************************************************************************)
(* The inputs of the model                                                 *)
(***************************************************************************)
MaxDocs == 3

MaxK == 2

Doc(uri, title, content) ==
    [uri |-> uri, displayTitle |-> title, content |-> content, indexTitle |-> title]

\* the documents add is called with
DocPool ==
    { Doc("https://modelcontextprotocol.io/docs/beta", "beta", ""),
      Doc("https://modelcontextprotocol.io/docs/alpha", "alpha", ""),
      Doc("https://modelcontextprotocol.io/docs/tools", "Tools MCP",
          "# Tools\n\nTools allow servers to expose [tools](/docs/tools) over ~stdio~."),
      Doc("https://modelcontextprotocol.io/docs/the", "The", "") }

\* the query strings of search and searchMcpDocs
QueryPool == { "", "the and or", "xyznonexistent", "alpha beta", "alpha tools tools" }

\* the values of k: the tool's schema (index.ts 28) takes any number
KValues == (0 - 1)..MaxK

\* the bodies the network serves for llms.txt
LlmsTxtPool ==
    { "# MCP\n- [Tools](https://modelcontextprotocol.io/docs/tools)\n- [ Alpha  guide ](/docs/alpha)\n- [Bad](https://example.com/x)\n",
      "# MCP\n\nNo links yet.\n" }

FetchFailed == [ok |-> FALSE, text |-> ""]

LlmsResponses == {FetchFailed} \cup {[ok |-> TRUE, text |-> t] : t \in LlmsTxtPool}

\* the outcomes of the request for a page: a failure, or the body served
PageResponses ==
    {FetchFailed, [ok |-> TRUE, text |-> "# Tools\n\nTools allow servers to expose functions."]}

\* the uris fetch_mcp_doc is called with: a link of llms.txt, a relative uri, another
\* host, the http scheme, and a host that begins like the allowed one
UriPool ==
    { "https://modelcontextprotocol.io/docs/tools", "/docs/alpha", "https://example.com/x",
      "http://modelcontextprotocol.io/docs/tools", "https://modelcontextprotocol.io.evil.com/x" }

\* the documents a caller that is not type-checked adds: one without content, one without
\* indexTitle, one with empty content, one with Markdown content
UntypedDocs ==
    { [uri |-> "https://modelcontextprotocol.io/docs/nocontent", displayTitle |-> "Tools",
       indexTitle |-> "Tools"],
      [uri |-> "https://modelcontextprotocol.io/docs/notitle", displayTitle |-> "Tools",
       content |-> "# Tools"],
      Doc("https://modelcontextprotocol.io/docs/alpha", "alpha", ""),
      Doc("https://modelcontextprotocol.io/docs/tools", "Tools MCP",
          "# Tools\n\nTools allow servers to expose [tools](/docs/tools) over ~stdio~.") }

\* the length of a long page
LongLength == 2000

\* n times the character c
RECURSIVE Repeat(_, _)
Repeat(c, n) ==
    IF n <= 0 THEN ""
    ELSE IF n = 1 THEN c
    ELSE Repeat(c, n \div 2) \o Repeat(c, n - (n \div 2))

\* the content lengths getTitleBoost is applied to: both sides of each tier's border
ContentLengths ==
    {0, 1, SHORT_PAGE_THRESHOLD - 1, SHORT_PAGE_THRESHOLD, SHORT_PAGE_THRESHOLD + 1, LongLength}

\* contents of n characters without Markdown: filler alone, and a word followed by filler
ContentPool ==
    {Repeat("z", n) : n \in ContentLengths}
    \cup {"tool" \o Repeat("z", n - 4) : n \in {m \in ContentLengths : m >= 4}}

\* the documents and tokens getTitleBoost and the weighted term frequency are applied to
BoostDocs ==
    {Doc("https://modelcontextprotocol.io/docs/x", title, content) :
        title \in {"Tools", "tools tools", "Alpha guide"}, content \in ContentPool}

BoostTokens == {"tool", "alpha", "guid"}

\* the words of the texts tokenize is applied to: stopwords, a preserved term, words whose
\* stem is another word or a stopword, camel-case words, and a word with an underscore
WordPool ==
    { "the", "The", "mcp", "tools", "works", "happy", "FastMCP", "fastmcp", "workS", "toolS",
      "input", "schema", "input_schema" }

\* every upper/lower-case spelling of the characters of w from position i on
RECURSIVE Spellings(_, _)
Spellings(w, i) ==
    IF i > Len(w) THEN {""}
    ELSE {c \o rest : c \in {CharAt(w, i), UpperChar(CharAt(w, i))}, rest \in Spellings(w, i + 1)}

\* the texts tokenize is applied to: the empty text, one word, two words joined by a space
\* or a hyphen, texts of three words, and every spelling of every preserved term
TextPool ==
    {"", "the and or", "input schema input_schema", "fastmcp tools FastMCP",
     "The MCP protocol uses stdio transport"}
    \cup WordPool
    \cup {a \o sep \o b : a \in WordPool, b \in WordPool, sep \in {" ", "-"}}
    \cup UNION {Spellings(w, 1) : w \in PRESERVE_TERMS}

\* cache.ts 39-49: the document loadLinksOnly indexes for one link
LinkDoc(title, url) ==
    LET displayTitle == normalize(title)
        indexTitle == indexTitleVariants(displayTitle, url)
    IN [uri |-> url, displayTitle |-> displayTitle, content |-> "", indexTitle |-> indexTitle]

\* parseLlmsTxt's links for each llms.txt body of the model, computed once
LinksOf == [t \in LlmsTxtPool |-> ParseLinks(t, 1)]

\* the URLs of the links: the URLs of the documents the server indexes
LinkUrls == UNION { {LinksOf[t][i].url : i \in 1..Len(LinksOf[t])} : t \in LlmsTxtPool }

\* every document the model's index can hold
KnownDocs ==
    DocPool \cup UNION { {LinkDoc(LinksOf[t][i].title, LinksOf[t][i].url) : i \in 1..Len(LinksOf[t])}
                         : t \in LlmsTxtPool }

(***************************************************************************)
(* Scoring helpers (indexer.ts 20-28, 109-131)                             *)
(***************************************************************************)
\* the tiers with a page of exactly SHORT_PAGE_THRESHOLD characters counted as short
getTitleBoostInclusive(doc) ==
    LET n == Len(doc.content)
    IN IF n = 0 THEN TITLE_BOOST_EMPTY
       ELSE IF n <= SHORT_PAGE_THRESHOLD THEN TITLE_BOOST_SHORT
       ELSE TITLE_BOOST_LONG

getTitleBoost(doc) ==
    LET n == Len(doc.content)
    IN IF n = 0 THEN TITLE_BOOST_EMPTY
       ELSE IF n < SHORT_PAGE_THRESHOLD THEN TITLE_BOOST_SHORT
       ELSE TITLE_BOOST_LONG

\* lines 126-129: the indexOf loop over the lower-cased text, from position pos
RECURSIVE CountFrom(_, _, _)
CountFrom(lower, token, pos) ==
    LET p == IndexOfFrom(lower, token, pos)
    IN IF p = 0 THEN 0 ELSE 1 + CountFrom(lower, token, p + Len(token))

countOccurrences(text, token) == CountFrom(toLowerCase(text), token, 1)

(***************************************************************************)
(* Math.log (indexer.ts 281) in fixed point: LnFixed(a, b) is              *)
(* LnScale * ln(a / b) for a, b > 0, by ln x = k ln 2 + 2 artanh((y-1)/(y+1)) *)
(* with y = x / 2^k in [1, 2) and LnScale * ln 2 = 6931.  A non-positive   *)
(* argument gives "NaN".                                                  *)
(***************************************************************************)
LnScale == 10000

RECURSIVE LnAtLeastOne(_, _)
LnAtLeastOne(a, b) ==
    IF a >= 2 * b THEN 6931 + LnAtLeastOne(a, 2 * b)
    ELSE LET y == ((a - b) * LnScale) \div (a + b)
             y2 == (y * y) \div LnScale
             t3 == (y * y2) \div LnScale
             t5 == (t3 * y2) \div LnScale
             t7 == (t5 * y2) \div LnScale
             t9 == (t7 * y2) \div LnScale
         IN 2 * (y + (t3 \div 3) + (t5 \div 5) + (t7 \div 7) + (t9 \div 9))

LnFixed(a, b) ==
    IF a <= 0 \/ b <= 0 THEN "NaN"
    ELSE IF a >= b THEN LnAtLeastOne(a, b)
    ELSE 0 - LnAtLeastOne(b, a)

(***************************************************************************)
(* IndexSearch (indexer.ts 149-304).  An index value ix is the record of   *)
(* the instance's fields; positions (idx) are 0-based as in the code, so   *)
(* the document at position idx is ix.docs[idx + 1].                       *)
(***************************************************************************)
RECURSIVE SumSeq(_)
SumSeq(q) == IF Len(q) = 0 THEN 0 ELSE Head(q) + SumSeq(Tail(q))

\* new IndexSearch() (lines 150-154)
NewIndexSearch ==
    [docs |-> <<>>, docFrequency |-> EmptyMap, docIndices |-> EmptyMap,
     docLengths |-> <<>>, avgDocLength |-> [num |-> 0, den |-> 1]]

\* extractMatches(doc.content, regex) lower-cased, for each of the four patterns
\* (lines 173-176 and 180-183 of add, 251-253 and 259-261 of calculateBM25Score)
MdFields(doc) ==
    [regex \in {"MD_HEADER_RE", "MD_CODE_BLOCK_RE", "MD_INLINE_CODE_RE", "MD_LINK_TEXT_RE"} |->
        toLowerCase(extractMatches(doc.content, regex))]

\* lines 177-184: the weighted haystack of a document
Haystack(doc) ==
    LET Fields(md) ==
            <<toLowerCase(doc.indexTitle), md["MD_HEADER_RE"], md["MD_LINK_TEXT_RE"],
              md["MD_CODE_BLOCK_RE"], md["MD_INLINE_CODE_RE"], toLowerCase(doc.content)>>
    IN Join(SelectSeq(Fields(MdFields(doc)), LAMBDA f : f # ""), " ")

\* lines 247-272: the weighted term frequency of token in doc
WeightedSum(doc, token, md) ==
    countOccurrences(toLowerCase(doc.content), token)
    + countOccurrences(toLowerCase(doc.indexTitle), token) * getTitleBoost(doc)
    + countOccurrences(md["MD_HEADER_RE"], token) * 4
    + countOccurrences(md["MD_CODE_BLOCK_RE"], token) * 2
    + countOccurrences(md["MD_LINK_TEXT_RE"], token) * 2

weightedTf(doc, token) == WeightedSum(doc, token, MdFields(doc))

\* lines 185-189: allTokens, the unigrams of the haystack followed by their bigrams
docTokens(doc) ==
    LET WithBigrams(unigrams) == unigrams \o generateBigrams(unigrams)
    IN WithBigrams(tokenize(Haystack(doc)))

\* lines 217-220: the tokens of a query, unigrams followed by their bigrams
queryTokens(query) ==
    LET WithBigrams(qUnigrams) == qUnigrams \o generateBigrams(qUnigrams)
    IN WithBigrams(tokenize(query))

SeqRange(q) == {q[i] : i \in 1..Len(q)}

\* docTokens of every document of the model, computed once
DocTokensOf == [d \in KnownDocs |-> docTokens(d)]

\* queryTokens of every query of the model, computed once
QueryTokensOf == [q \in QueryPool |-> queryTokens(q)]

\* every token, unigram or bigram, of the model's documents and queries
Vocabulary ==
    UNION { SeqRange(DocTokensOf[d]) : d \in KnownDocs }
    \cup UNION { SeqRange(QueryTokensOf[q]) : q \in QueryPool }

\* weightedTf of every document and token of the model, computed once
WeightedTfOf == [d \in KnownDocs |-> [t \in Vocabulary |-> weightedTf(d, t)]]

\* the loop with the document frequency raised at every occurrence of a token
IndexTokensPerOccurrence(allTokens, idx, docIndices, docFrequency) ==
    LET occurrences == [tok \in SeqRange(allTokens) |->
                           Cardinality({i \in 1..Len(allTokens) : allTokens[i] = tok})]
        seen == SeqRange(allTokens)
    IN [docIndices |->
            [tok \in DOMAIN docIndices \cup seen |->
                IF tok \in seen
                THEN MapGet(docIndices, tok, <<>>) \o [i \in 1..occurrences[tok] |-> idx]
                ELSE docIndices[tok]],
        docFrequency |->
            [tok \in DOMAIN docFrequency \cup seen |->
                IF tok \in seen THEN MapGet(docFrequency, tok, 0) + occurrences[tok]
                ELSE docFrequency[tok]],
        docTokens |-> allTokens]

\* lines 191-201: the loop over allTokens for the document at position idx.  Every
\* occurrence of a token appends idx to its posting list (193-196); the first occurrence
\* alone, the one not yet in `seen`, raises its document frequency (197-200).
IndexTokens(allTokens, idx, docIndices, docFrequency) ==
    LET occurrences == [tok \in SeqRange(allTokens) |->
                           Cardinality({i \in 1..Len(allTokens) : allTokens[i] = tok})]
        seen == SeqRange(allTokens)
    IN [docIndices |->
            [tok \in DOMAIN docIndices \cup seen |->
                IF tok \in seen
                THEN MapGet(docIndices, tok, <<>>) \o [i \in 1..occurrences[tok] |-> idx]
                ELSE docIndices[tok]],
        docFrequency |->
            [tok \in DOMAIN docFrequency \cup seen |->
                IF tok \in seen THEN MapGet(docFrequency, tok, 0) + 1 ELSE docFrequency[tok]],
        docTokens |-> allTokens]

\* the total taken before the new length is pushed
PushLengthStale(docLengths) ==
    [docLengths |-> docLengths, totalLength |-> SumSeq(SubSeq(docLengths, 1, Len(docLengths) - 1))]

\* lines 203-208: docLengths.push and the recomputed average
PushLength(docLengths) == [docLengths |-> docLengths, totalLength |-> SumSeq(docLengths)]

\* a push that skips a document the list already holds
PushDocOnce(list, doc) == IF Includes(list, doc) THEN list ELSE Append(list, doc)

\* this.docs.unshift(doc)
PushDocFront(list, doc) == <<doc>> \o list

\* line 161: this.docs.push(doc)
PushDoc(list, doc) == Append(list, doc)

\* add (lines 159-211): the index after this.add(doc)
add(ix, doc) ==
    LET Lengths(acc, pushed) ==
            [docs |-> PushDoc(ix.docs, doc),
             docFrequency |-> acc.docFrequency,
             docIndices |-> acc.docIndices,
             docLengths |-> pushed.docLengths,
             avgDocLength |-> [num |-> pushed.totalLength, den |-> Len(pushed.docLengths)]]
        Indexed(acc) == Lengths(acc, PushLength(Append(ix.docLengths, Len(acc.docTokens))))
    IN Indexed(IndexTokens(MapGet(DocTokensOf, doc, docTokens(doc)),
                           Len(ix.docs), ix.docIndices, ix.docFrequency))

\* add (lines 159-211) for a document as a JavaScript caller can pass it: [ix, threw].
\* doc.content.toLowerCase() (line 167) and doc.indexTitle.toLowerCase() (line 168) throw a
\* TypeError when the field is missing, after line 161 has pushed the document.
addUntyped(ix, doc) ==
    IF "content" \notin DOMAIN doc \/ "indexTitle" \notin DOMAIN doc
    THEN [ix |-> [ix EXCEPT !.docs = PushDoc(ix.docs, doc)], threw |-> TRUE]
    ELSE [ix |-> add(ix, doc), threw |-> FALSE]

\* line 275: this.docLengths[docIdx] || 1
ScoredDocLength(ix, docIdx) ==
    IF docIdx + 1 \in DOMAIN ix.docLengths /\ ix.docLengths[docIdx + 1] # 0
    THEN ix.docLengths[docIdx + 1]
    ELSE 1

\* line 276: Math.max(this.avgDocLength, 1)
ScoredAvgLen(ix) ==
    IF ix.avgDocLength.num >= ix.avgDocLength.den THEN ix.avgDocLength ELSE [num |-> 1, den |-> 1]

\* the classic argument (nDocs - df + 0.5) / (df + 0.5), without the + 1.0, in halves
IdfArgUnsmoothed(ix, token) ==
    LET nDocs == IF Len(ix.docs) >= 1 THEN Len(ix.docs) ELSE 1
        df == MapGet(ix.docFrequency, token, 0)
    IN [num |-> 2 * (nDocs - df) + 1, den |-> 2 * df + 1]

\* lines 279-281: the argument of Math.log, (nDocs - df + 0.5) / (df + 0.5) + 1.0, in halves
IdfArg(ix, token) ==
    LET nDocs == IF Len(ix.docs) >= 1 THEN Len(ix.docs) ELSE 1
        df == MapGet(ix.docFrequency, token, 0)
    IN [num |-> (2 * (nDocs - df) + 1) + (2 * df + 1), den |-> 2 * df + 1]

\* lines 279-281: idf, in units of 1 / LnScale
Idf(ix, token) ==
    LET Log(arg) == LnFixed(arg.num, arg.den)
    IN Log(IdfArg(ix, token))

\* lines 247-272 for a document and token of the model: the table's entry
docWeightedTf(doc, token) ==
    MapGet(MapGet(WeightedTfOf, doc, EmptyMap), token, weightedTf(doc, token))

\* lines 284-286: tfComponent as a fraction; numerator and denominator of the code's
\* quotient are both multiplied by K1Den * BDen * avgLen.num
TfComponent(ix, doc, token, docIdx) ==
    LET Quotient(w, docLength, avgLen) ==
            [num |-> w * (K1Num + K1Den) * BDen * avgLen.num,
             den |-> w * K1Den * BDen * avgLen.num
                     + K1Num * ((BDen - BNum) * avgLen.num + BNum * docLength * avgLen.den)]
    IN Quotient(docWeightedTf(doc, token), ScoredDocLength(ix, docIdx), ScoredAvgLen(ix))

\* calculateBM25Score (lines 246-289): idf * tfComponent, in units of 1 / (LnScale * 1000)
calculateBM25Score(ix, doc, token, docIdx) ==
    LET Product(idf, tf) == idf * ((tf.num * 1000) \div tf.den)
    IN Product(Idf(ix, token), TfComponent(ix, doc, token, docIdx))

\* scores.set(idx, v) on the Map of line 224, kept as the sequence of its entries in
\* insertion order
ScoresSet(scores, idx, v) ==
    IF \E i \in 1..Len(scores) : scores[i].idx = idx
    THEN [i \in 1..Len(scores) |-> IF scores[i].idx = idx THEN [idx |-> idx, score |-> v] ELSE scores[i]]
    ELSE Append(scores, [idx |-> idx, score |-> v])

\* an accumulator that starts from 0 at every entry
ScoresGetNothing(scores, idx) == 0

\* scores.get(idx) || 0
ScoresGet(scores, idx) ==
    IF \E i \in 1..Len(scores) : scores[i].idx = idx
    THEN (CHOOSE e \in {scores[i] : i \in 1..Len(scores)} : e.idx = idx).score
    ELSE 0

\* lines 228-232: the loop over the entries indices[lo..hi] of one posting list, in order
RECURSIVE ScorePostings(_, _, _, _, _, _)
ScorePostings(ix, qt, indices, lo, hi, scores) ==
    IF lo > hi THEN scores
    ELSE ScorePostings(ix, qt, indices, lo + 1, hi,
            ScoresSet(scores, indices[lo],
                      ScoresGet(scores, indices[lo])
                          + calculateBM25Score(ix, ix.docs[indices[lo] + 1], qt, indices[lo])))

\* the loop left after its first turn: the first query token alone is scored
ScoreFirstQueryToken(ix, qTokens, lo, hi, scores) ==
    IF lo > hi THEN scores
    ELSE ScorePostings(ix, qTokens[lo], MapGet(ix.docIndices, qTokens[lo], <<>>), 1,
                       Len(MapGet(ix.docIndices, qTokens[lo], <<>>)), scores)

\* lines 226-233: the loop over the query tokens qTokens[lo..hi], in order
RECURSIVE ScoreQueryTokens(_, _, _, _, _)
ScoreQueryTokens(ix, qTokens, lo, hi, scores) ==
    IF lo > hi THEN scores
    ELSE ScoreQueryTokens(ix, qTokens, lo + 1, hi,
                          ScorePostings(ix, qTokens[lo], MapGet(ix.docIndices, qTokens[lo], <<>>), 1,
                                        Len(MapGet(ix.docIndices, qTokens[lo], <<>>)), scores))

\* the entries left in the order the scores were first set
KeepOrder(entries) == entries

\* Array.prototype.sort with (a, b) => b.score - a.score: stable, descending by score
RECURSIVE SortByScoreDesc(_)
SortByScoreDesc(entries) ==
    LET Insert(front, e, keep) == SubSeq(front, 1, keep) \o <<e>> \o SubSeq(front, keep + 1, Len(front))
        Place(front, e) == Insert(front, e, Cardinality({i \in 1..Len(front) : front[i].score >= e.score}))
    IN IF Len(entries) <= 1 THEN entries
       ELSE Place(SortByScoreDesc(SubSeq(entries, 1, Len(entries) - 1)), entries[Len(entries)])

\* the whole list, whatever k is
SliceNothing(q, k) == q

\* Array.prototype.slice(0, k) for an integer k: a negative k counts from the end
SliceTo(q, k) ==
    SubSeq(q, 1, IF k < 0 THEN (IF Len(q) + k > 0 THEN Len(q) + k ELSE 0)
                 ELSE IF k < Len(q) THEN k ELSE Len(q))

\* search (lines 216-241).  Each result is {score, doc}; idx, the position the document
\* was read from (line 237), is kept beside it for the statements about positions.
\* lines 236-238: the entries of the scores Map as results, sorted
Ranked(ix, scores) ==
    SortByScoreDesc([i \in 1..Len(scores) |->
                        [score |-> scores[i].score, doc |-> ix.docs[scores[i].idx + 1],
                         idx |-> scores[i].idx]])

\* lines 224-238 for the query tokens qTokens
RankedFor(ix, qTokens) == Ranked(ix, ScoreQueryTokens(ix, qTokens, 1, Len(qTokens), <<>>))

search(ix, query, k) ==
    IF Len(ix.docs) = 0 THEN <<>>
    ELSE SliceTo(RankedFor(ix, MapGet(QueryTokensOf, query, queryTokens(query))), k)

(***************************************************************************)
(* cache.ts.  A cache state S is the record [ix, index, urlCache,          *)
(* urlTitles, linksLoaded, addCalls]: index is "null" or the reference     *)
(* IndexRef to the one IndexSearch instance, whose fields are ix;          *)
(* addCalls counts the calls of add made so far.                           *)
(***************************************************************************)
SNIPPET_HYDRATE_MAX == 5

IndexRef == "IndexSearch"

\* the null of Map<string, Page | null>
Null == [null |-> TRUE]

\* cache.ts 34-49: one turn of the loop over the parsed links
AddLink(S, title, url) ==
    [S EXCEPT !.urlTitles = MapSet(S.urlTitles, url, title),
              !.urlCache = IF url \in DOMAIN S.urlCache THEN S.urlCache
                           ELSE MapSet(S.urlCache, url, Null),
              !.ix = add(S.ix, LinkDoc(title, url)),
              !.addCalls = S.addCalls + 1]

\* cache.ts 32-50: the loop over the parsed links
RECURSIVE AddLinks(_, _)
AddLinks(S, links) ==
    IF Len(links) = 0 THEN S
    ELSE AddLinks(AddLink(S, Head(links).title, Head(links).url), Tail(links))

\* cache.ts 26-28: the index is created when there is none
CreateIndex(S) == IF S.index = "null" THEN [S EXCEPT !.index = IndexRef, !.ix = NewIndexSearch] ELSE S

\* cache.ts 30-52 with the outcome of parseLlmsTxt
LoadParsed(created, parsed) ==
    IF ~parsed.ok THEN [S |-> created, threw |-> TRUE, fetched |-> TRUE]
    ELSE [S |-> [AddLinks(created, parsed.links) EXCEPT !.linksLoaded = TRUE], threw |-> FALSE,
          fetched |-> TRUE]

\* loadLinksOnly (cache.ts 25-53) run without interruption: [S, threw, fetched]; fetched
\* tells that the request for llms.txt was made
loadLinksOnly(S, response) == LoadParsed(CreateIndex(S), parseLlmsTxt(response))

\* a call that loads the links whatever linksLoaded is
ensureReadyReloading(S, response) == loadLinksOnly(S, response)

\* ensureReady (cache.ts 58-62): [S, threw, fetched]
ensureReady(S, response) ==
    IF ~S.linksLoaded THEN loadLinksOnly(S, response)
    ELSE [S |-> S, threw |-> FALSE, fetched |-> FALSE]

\* urlCache.get(url) is neither undefined nor null
IsCached(S, url) == url \in DOMAIN S.urlCache /\ S.urlCache[url] # Null

\* urlCache.set(url, page) followed by the indexing of the page with its content
CachePageIndexed(S, url, page, requested) ==
    [S |-> [S EXCEPT !.urlCache = MapSet(S.urlCache, url, page),
                     !.ix = IF page = Null THEN S.ix
                            ELSE add(S.ix, [uri |-> url, displayTitle |-> page.title,
                                            content |-> page.content, indexTitle |-> page.title])],
     page |-> page, requested |-> requested]

\* cache.ts 81 and 84: urlCache.set(url, page) and the return of page
CachePage(S, url, page, requested) ==
    [S |-> [S EXCEPT !.urlCache = MapSet(S.urlCache, url, page)], page |-> page,
     requested |-> requested]

\* cache.ts 73-86 with the outcome raw of fetchAndClean
FetchPage(S, url, raw) ==
    IF raw.ok
    THEN CachePage(S, url, [url |-> url, title |-> formatDisplayTitle(url, raw.page.title, S.urlTitles),
                            content |-> raw.page.content], raw.requested)
    ELSE CachePage(S, url, Null, raw.requested)

\* ensurePage (cache.ts 67-87): [S, page, requested]; page = Null is the returned null,
\* requested lists the URLs an HTTP request was made for
ensurePage(S, url, response) ==
    IF IsCached(S, url) THEN [S |-> S, page |-> S.urlCache[url], requested |-> <<>>]
    ELSE FetchPage(S, url, fetchAndClean(url, response))

(***************************************************************************)
(* tools (src/unnamed/part_004 37-143)                                     *)
(***************************************************************************)
\* part_004 91-96: one turn of the hydration loop; responses[uri] is the outcome of the
\* request for uri, should ensurePage make one
HydrateOne(S, uri, responses) ==
    IF IsCached(S, uri) THEN S ELSE ensurePage(S, uri, responses[uri]).S

\* part_004 90-96: hydrate the top results in order
RECURSIVE Hydrate(_, _, _, _)
Hydrate(S, topResults, responses, i) ==
    IF i > Len(topResults) THEN S
    ELSE Hydrate(HydrateOne(S, topResults[i].doc.uri, responses), topResults, responses, i + 1)

\* Math.round(score * 1000) / 1000 (part_004 107), in thousandths
RoundMilli(score) == (score + (LnScale \div 2)) \div LnScale

\* part_004 85-112 with the list index.search returned
BuildResults(S, results, responses) ==
    [S |-> Hydrate(S, SubSeq(results, 1, IF Len(results) < SNIPPET_HYDRATE_MAX
                                         THEN Len(results) ELSE SNIPPET_HYDRATE_MAX),
                   responses, 1),
     threw |-> FALSE,
     results |-> [i \in 1..Len(results) |->
                     [url |-> results[i].doc.uri, title |-> results[i].doc.displayTitle,
                      score |-> RoundMilli(results[i].score)]],
     found |-> results]

\* part_004 80-112 with the outcome of ensureReady
SearchReady(ready, query, k, responses) ==
    IF ready.threw THEN [S |-> ready.S, threw |-> TRUE, results |-> <<>>, found |-> <<>>]
    ELSE IF ready.S.index = "null"
    THEN [S |-> ready.S, threw |-> FALSE, results |-> <<>>, found |-> <<>>]
    ELSE BuildResults(ready.S, search(ready.S.ix, query, k), responses)

\* searchMcpDocs (part_004 74-113) run without interruption: [S, threw, results, found].
\* found is the list index.search returned (line 85).  The snippet field of a result
\* (makeSnippet, a function of the cached page and the title) is left out.
searchMcpDocs(S, query, k, llmsResponse, responses) ==
    SearchReady(ensureReady(S, llmsResponse), query, k, responses)

\* the FetchResult without the error field
FetchResultWithoutError(uri, page) ==
    IF page = Null THEN [url |-> uri, title |-> "", content |-> ""]
    ELSE [url |-> page.url, title |-> page.title, content |-> page.content]

\* part_004 129-142: the FetchResult for the page ensurePage returned
FetchResultOf(uri, page) ==
    IF page = Null
    THEN [url |-> uri, title |-> "", content |-> "", error |-> "Failed to fetch document"]
    ELSE [url |-> page.url, title |-> page.title, content |-> page.content]

\* part_004 129-142 with the outcome of ensurePage
FetchEnsured(uri, ensured) ==
    [S |-> ensured.S, threw |-> FALSE, result |-> FetchResultOf(uri, ensured.page),
     requested |-> ensured.requested]

\* part_004 125-142 with the outcome of ensureReady
FetchReady(ready, uri, response) ==
    IF ready.threw THEN [S |-> ready.S, threw |-> TRUE, result |-> [url |-> uri], requested |-> <<>>]
    ELSE FetchEnsured(uri, ensurePage(ready.S, uri, response))

\* fetchMcpDoc (part_004 124-143) run without interruption: [S, threw, result, requested];
\* threw tells that the error of ensureReady left the function
fetchMcpDoc(S, uri, llmsResponse, response) ==
    FetchReady(ensureReady(S, llmsResponse), uri, response)

\* the response of the fetch_mcp_doc handler (index.ts 68-95): [result, isError]
FetchResponse(uri, fetched) ==
    IF fetched.threw THEN [result |-> [error |-> "Fetch failed", url |-> uri], isError |-> TRUE]
    ELSE [result |-> fetched.result,
          isError |-> "error" \in DOMAIN fetched.result /\ fetched.result.error # ""]

\* getDocs (indexer.ts 294-296) and the size getter (301-303)
getDocs(ix) == ix.docs

size(ix) == Len(ix.docs)

(***************************************************************************)
(* The state: the fields of the IndexSearch instance (indexer.ts 150-154), *)
(* the globals of cache.ts (16-19), the number of add calls made, the last *)
(* call with what it returned, and the calls that wait at an await.        *)
(***************************************************************************)
VARIABLES docs, docFrequency, docIndices, docLengths, avgDocLength,
          index, urlCache, urlTitles, linksLoaded, addCalls, call, inFlight

vars == <<docs, docFrequency, docIndices, docLengths, avgDocLength,
          index, urlCache, urlTitles, linksLoaded, addCalls, call, inFlight>>

indexVars == <<docs, docFrequency, docIndices, docLengths, avgDocLength>>

cacheVars == <<index, urlCache, urlTitles, linksLoaded>>

\* the instance's fields as an index value
This ==
    [docs |-> docs, docFrequency |-> docFrequency, docIndices |-> docIndices,
     docLengths |-> docLengths, avgDocLength |-> avgDocLength]

\* the whole cache state
Cache ==
    [ix |-> This, index |-> index, urlCache |-> urlCache, urlTitles |-> urlTitles,
     linksLoaded |-> linksLoaded, addCalls |-> addCalls]

Install(S) ==
    /\ docs' = S.ix.docs
    /\ docFrequency' = S.ix.docFrequency
    /\ docIndices' = S.ix.docIndices
    /\ docLengths' = S.ix.docLengths
    /\ avgDocLength' = S.ix.avgDocLength
    /\ index' = S.index
    /\ urlCache' = S.urlCache
    /\ urlTitles' = S.urlTitles
    /\ linksLoaded' = S.linksLoaded
    /\ addCalls' = S.addCalls

\* module load of cache.ts (16-19): no index yet
Loaded ==
    /\ docs = NewIndexSearch.docs
    /\ docFrequency = NewIndexSearch.docFrequency
    /\ docIndices = NewIndexSearch.docIndices
    /\ docLengths = NewIndexSearch.docLengths
    /\ avgDocLength = NewIndexSearch.avgDocLength
    /\ index = "null"
    /\ urlCache = EmptyMap
    /\ urlTitles = EmptyMap
    /\ linksLoaded = FALSE
    /\ addCalls = 0
    /\ inFlight = EmptyMap

Init ==
    /\ Loaded
    /\ call = [op |-> "none"]

\* the step of an operation that ends in the cache state S having returned ret
Return(S, ret) ==
    /\ Len(S.ix.docs) <= MaxDocs
    /\ Install(S)
    /\ call' = ret
    /\ UNCHANGED inFlight

\* await ensureReady() of main (index.ts 105-110), with the outcome of the llms.txt fetch
EnsureReady(response) ==
    LET Done(r) == Return(r.S, [op |-> "ensureReady", threw |-> r.threw, fetched |-> r.fetched])
    IN Done(ensureReady(Cache, response))

\* getIndex().add(doc)
Add(doc) ==
    /\ index # "null"
    /\ Return([Cache EXCEPT !.ix = add(This, doc), !.addCalls = addCalls + 1],
              [op |-> "add", doc |-> doc, returned |-> IndexRef])

\* a search whose sort (line 238) is done on this.docs in place
SearchSortingDocs(query, k) ==
    /\ index # "null"
    /\ call' = [op |-> "search", query |-> query, k |-> k, result |-> search(This, query, k)]
    /\ docs' = [i \in 1..Len(docs) |-> docs[Len(docs) + 1 - i]]
    /\ UNCHANGED <<docFrequency, docIndices, docLengths, avgDocLength, cacheVars, addCalls, inFlight>>

\* getIndex().search(query, k)
Search(query, k) ==
    /\ index # "null"
    /\ call' = [op |-> "search", query |-> query, k |-> k, result |-> search(This, query, k)]
    /\ UNCHANGED <<indexVars, cacheVars, addCalls, inFlight>>

\* getIndex().getDocs()
GetDocs ==
    /\ index # "null"
    /\ call' = [op |-> "getDocs", result |-> getDocs(This)]
    /\ UNCHANGED <<indexVars, cacheVars, addCalls, inFlight>>

\* the search_mcp_docs tool (index.ts 31-56): one request served from start to end
SearchMcpDocs(query, k, llmsResponse, responses) ==
    LET Done(r) == Return(r.S, [op |-> "searchMcpDocs", query |-> query, k |-> k, threw |-> r.threw,
                                result |-> r.results, found |-> r.found])
    IN Done(searchMcpDocs(Cache, query, k, llmsResponse, responses))

\* the fetch_mcp_doc tool (index.ts 68-95): one request served from start to end
FetchMcpDoc(uri, llmsResponse, response) ==
    LET Done(r) == Return(r.S, [op |-> "fetchMcpDoc", uri |-> uri, response |-> response,
                                threw |-> r.threw, requested |-> r.requested,
                                result |-> FetchResponse(uri, r).result,
                                isError |-> FetchResponse(uri, r).isError])
    IN Done(fetchMcpDoc(Cache, uri, llmsResponse, response))

\* getIndex().add(doc) from a caller that is not type-checked: doc may lack a field
AddUntyped(doc) ==
    LET Done(r) == Return([Cache EXCEPT !.ix = r.ix, !.addCalls = addCalls + 1],
                          [op |-> "addUntyped", doc |-> doc, threw |-> r.threw])
    IN /\ index # "null"
       /\ Done(addUntyped(This, doc))

\* the operations of an IndexSearch instance, the instance being the one cache.ts creates
\* the outcomes of the llms.txt request that leave different indexes: a failure, and a
\* body with links (a body without links leaves the index a failure leaves)
IndexResponses == {r \in LlmsResponses : ~r.ok \/ Len(LinksOf[r.text]) > 0}

Next ==
    \/ \E response \in IndexResponses : EnsureReady(response)
    \/ \E doc \in DocPool : Add(doc)
    \/ \E query \in QueryPool, k \in KValues : Search(query, k)
    \/ GetDocs

Spec == Init /\ [][Next]_vars

\* the outcomes the llms.txt request of a call can have: once the links are loaded no
\* request is made and the outcome is not read
LlmsFetches == IF linksLoaded THEN {FetchFailed} ELSE LlmsResponses

\* the operations of an instance whose callers are not type-checked
UntypedSpec ==
    Init /\ [][\/ \E response \in LlmsResponses : EnsureReady(response)
              \/ \E doc \in UntypedDocs : AddUntyped(doc)
              \/ GetDocs]_vars

\* the outcomes the page requests of a call can have, by URL: no request is made for a
\* page that is cached and the outcome is not read
PageFetches ==
    {responses \in [LinkUrls -> PageResponses] :
        \A url \in LinkUrls : IsCached(Cache, url) => responses[url] = FetchFailed}

\* the server: start-up and the two tools, the index holding what llms.txt lists
ServerNext ==
    \/ \E response \in LlmsResponses : EnsureReady(response)
    \/ \E query \in QueryPool, k \in KValues : Search(query, k)
    \/ \E uri \in UriPool, llmsResponse \in LlmsFetches, response \in PageResponses :
          FetchMcpDoc(uri, llmsResponse, response)
    \/ \E query \in QueryPool, k \in KValues, llmsResponse \in LlmsFetches :
          \E responses \in PageFetches :
              SearchMcpDocs(query, k, llmsResponse, responses)

ServerSpec == Init /\ [][ServerNext]_vars

(***************************************************************************)
(* The calls as they interleave.  An async function runs without           *)
(* interruption from one await to the next.  A call that waits is kept in  *)
(* inFlight under a slot, with the await it is at: "parseLlmsTxt" (cache.ts *)
(* 30), "ensureReady" (part_004 78 and 125, the promise being settled),     *)
(* "fetchAndClean" (cache.ts 74) or "ensurePage" (part_004 94 and 127, the  *)
(* promise being settled).  The calls that arrive are main's ensureReady   *)
(* and the two tools; main (index.ts 102-117) connects the transport after *)
(* its ensureReady has settled, so no tool runs beside it.                 *)
(***************************************************************************)
\* the number of calls that can wait at the same time
MaxInFlight == 2

\* the arguments of a tool; no line before part_004 85 and 127 reads them, and they are
\* drawn there.  fetch_mcp_doc is called with a link of llms.txt or with a URL of
\* another host.
ToolArgs(op) ==
    IF op = "fetchMcpDoc"
    THEN {<<uri>> : uri \in {"https://modelcontextprotocol.io/docs/tools", "https://example.com/x"}}
    ELSE {<<query, k>> : query \in QueryPool, k \in KValues}

\* part_004 127 and 85-91: the URLs the tool calls ensurePage for, in order
TaskUris(op, arg) ==
    LET Top(results) ==
            [i \in 1..(IF Len(results) < SNIPPET_HYDRATE_MAX THEN Len(results)
                       ELSE SNIPPET_HYDRATE_MAX) |-> results[i].doc.uri]
    IN IF op = "fetchMcpDoc" THEN arg ELSE Top(search(This, arg[1], arg[2]))

\* part_004 92-93 and cache.ts 68-71: the URLs that are cached are passed without an await
RECURSIVE DropCached(_)
DropCached(uris) ==
    IF Len(uris) = 0 \/ ~IsCached(Cache, Head(uris)) THEN uris ELSE DropCached(Tail(uris))

\* a call arrives and runs to its first await: ensureReady (cache.ts 58-62) to the
\* request of parseLlmsTxt (cache.ts 26-30) when the links are not loaded
Begin(t, op) ==
    /\ t \notin DOMAIN inFlight
    /\ \A u \in 1..(t - 1) : u \in DOMAIN inFlight
    /\ IF op = "main" THEN index = "null"
       ELSE index # "null" /\ \A u \in DOMAIN inFlight : inFlight[u].op # "main"
    /\ Install(IF linksLoaded THEN Cache ELSE CreateIndex(Cache))
    /\ inFlight' = MapSet(inFlight, t,
                          [op |-> op, at |-> IF linksLoaded THEN "ensureReady" ELSE "parseLlmsTxt"])
    /\ UNCHANGED call

\* the request for llms.txt of the call in slot t settles: loadLinksOnly goes on from
\* cache.ts 30 to its end, ensureReady settles, and main is done (index.ts 106-110)
LlmsArrives(t, response) ==
    LET Done(r) ==
            /\ Install(r.S)
            /\ IF r.threw \/ inFlight[t].op = "main"
               THEN /\ inFlight' = [u \in DOMAIN inFlight \ {t} |-> inFlight[u]]
                    /\ call' = [op |-> inFlight[t].op, threw |-> r.threw]
               ELSE /\ inFlight' = [inFlight EXCEPT ![t].at = "ensureReady"]
                    /\ UNCHANGED call
    IN /\ t \in DOMAIN inFlight
       /\ inFlight[t].at = "parseLlmsTxt"
       /\ Done(LoadParsed(Cache, parseLlmsTxt(response)))

\* the tool in slot t goes on after await ensureReady() or await ensurePage(): to the
\* request of the next URL that is not cached (cache.ts 68-74), or to its end
Resume(t, arg) ==
    LET Go(rest) ==
            IF Len(rest) = 0
            THEN /\ inFlight' = [u \in DOMAIN inFlight \ {t} |-> inFlight[u]]
                 /\ call' = [op |-> inFlight[t].op, threw |-> FALSE]
            ELSE /\ inFlight' = MapSet(inFlight, t, [op |-> inFlight[t].op, at |-> "fetchAndClean",
                                                     uris |-> rest])
                 /\ UNCHANGED call
    IN /\ t \in DOMAIN inFlight
       /\ inFlight[t].at \in {"ensureReady", "ensurePage"}
       /\ arg \in ToolArgs(inFlight[t].op)
       /\ Go(DropCached(IF inFlight[t].at = "ensureReady" THEN TaskUris(inFlight[t].op, arg)
                        ELSE Tail(inFlight[t].uris)))
       /\ UNCHANGED <<indexVars, cacheVars, addCalls>>

\* the request for the page of the call in slot t settles: ensurePage goes on from
\* cache.ts 74 to its end
PageArrives(t, response) ==
    /\ t \in DOMAIN inFlight
    /\ inFlight[t].at = "fetchAndClean"
    /\ Install(FetchPage(Cache, Head(inFlight[t].uris),
                         fetchAndClean(Head(inFlight[t].uris), response)).S)
    /\ inFlight' = [inFlight EXCEPT ![t].at = "ensurePage"]
    /\ UNCHANGED call

ConcurrentNext ==
    \/ \E t \in 1..MaxInFlight, op \in {"main", "fetchMcpDoc", "searchMcpDocs"} : Begin(t, op)
    \/ \E t \in 1..MaxInFlight, response \in LlmsResponses : LlmsArrives(t, response)
    \/ \E t \in 1..MaxInFlight, arg \in ToolArgs("fetchMcpDoc") \cup ToolArgs("searchMcpDocs") :
          Resume(t, arg)
    \/ \E t \in 1..MaxInFlight, response \in PageResponses : PageArrives(t, response)

ConcurrentSpec == Init /\ [][ConcurrentNext]_vars


\* the inputs of getTitleBoost and of the weighted term frequency: a document and a token
BoostInit ==
    /\ Loaded
    /\ \E doc \in BoostDocs, token \in BoostTokens :
           call = [op |-> "input", doc |-> doc, token |-> token]

\* getTitleBoost(doc)
GetTitleBoost ==
    /\ call.op = "input"
    /\ call' = [op |-> "getTitleBoost", doc |-> call.doc, token |-> call.token,
                boost |-> getTitleBoost(call.doc)]
    /\ UNCHANGED <<indexVars, cacheVars, addCalls, inFlight>>

\* the weightedTf of calculateBM25Score (lines 247-272) for the document and the token
WeightedTf ==
    /\ call.op = "input"
    /\ call' = [op |-> "weightedTf", doc |-> call.doc, token |-> call.token,
                value |-> weightedTf(call.doc, call.token)]
    /\ UNCHANGED <<indexVars, cacheVars, addCalls, inFlight>>

BoostSpec == BoostInit /\ [][GetTitleBoost \/ WeightedTf]_vars

\* the input of tokenize: a text
TokenizeInit ==
    /\ Loaded
    /\ \E text \in TextPool : call = [op |-> "text", text |-> text]

\* tokenize(text)
Tokenize ==
    /\ call.op = "text"
    /\ call' = [op |-> "tokenize", text |-> call.text, tokens |-> tokenize(call.text)]
    /\ UNCHANGED <<indexVars, cacheVars, addCalls, inFlight>>

\* lines 187-189 of add for the haystack text: the unigrams and the bigrams made of them
GenerateBigrams ==
    /\ call.op = "text"
    /\ call' = [op |-> "generateBigrams", text |-> call.text, unigrams |-> tokenize(call.text),
                bigrams |-> generateBigrams(tokenize(call.text))]
    /\ UNCHANGED <<indexVars, cacheVars, addCalls, inFlight>>

TokenizeSpec == TokenizeInit /\ [][Tokenize \/ GenerateBigrams]_vars


C2_ScoresNonIncreasing ==
    call.op = "search" =>
        \A i \in 1..(Len(call.result) - 1) : call.result[i].score >= call.result[i + 1].score

\* a search returned two results or more, the first scoring strictly more than the last
C2_Witness ==
    /\ call.op = "search"
    /\ Len(call.result) >= 2
    /\ call.result[1].score > call.result[Len(call.result)].score

\* C3: of two results with equal total scores the one added earlier (at the smaller
\* position) comes first
C3_TiesByInsertionOrder ==
    call.op = "search" =>
        \A i, j \in 1..Len(call.result) :
            i < j /\ call.result[i].score = call.result[j].score =>
                call.result[i].idx < call.result[j].idx

\* /\b/: the words of a query, lower-cased
QueryWords(query) ==
    LET Lowered(matches) == {toLowerCase(matches[i]) : i \in 1..Len(matches)}
    IN Lowered(MatchTokenRe(query))

\* C4: search returns the empty list when the index holds no document, when the query is
\* empty, when the query holds nothing but stopwords, and when no token of the query has a
\* posting list
C4_EmptyResult ==
    /\ call.op = "search"
    /\ \/ Len(docs) = 0
       \/ call.query = ""
       \/ QueryWords(call.query) \subseteq STOP_WORDS
       \/ \A t \in SeqRange(MapGet(QueryTokensOf, call.query, queryTokens(call.query))) :
              t \notin DOMAIN docIndices
    => call.result = <<>>

\* a query of stopwords alone was searched, with a positive k, in an index that holds a
\* document whose title is one of the query's words
C4_Witness ==
    /\ call.op = "search"
    /\ call.k > 0
    /\ QueryWords(call.query) # {}
    /\ QueryWords(call.query) \subseteq STOP_WORDS
    /\ \E i \in 1..Len(docs) : toLowerCase(docs[i].indexTitle) \in QueryWords(call.query)
    /\ call.result = <<>>

\* C5: size is the number of add calls made on the instance, duplicates included, and add
\* returns the instance it was called on
C5_SizeCountsAdds ==
    /\ index # "null" => size(This) = addCalls
    /\ call.op = "add" => call.returned = index /\ docs[size(This)] = call.doc

\* add has just been called with a document the index already held
C5_Witness ==
    /\ call.op = "add"
    /\ size(This) >= 2
    /\ \E i \in 1..(size(This) - 1) : docs[i] = call.doc

\* C6: the document frequency of a token is the number of distinct positions in its
\* posting list, however often the token repeats within one document
C6_DocFrequency ==
    /\ DOMAIN docFrequency = DOMAIN docIndices
    /\ \A t \in DOMAIN docIndices : docFrequency[t] = Cardinality(SeqRange(docIndices[t]))

\* a token occurs in two documents or more, in one of them more than once
C6_Witness ==
    \E t \in DOMAIN docIndices :
        /\ docFrequency[t] >= 2
        /\ Len(docIndices[t]) > docFrequency[t]

\* C7: the stored average is the sum of the recorded lengths over the number of
\* documents, and docLengths holds, at each document's position, the number of its tokens
C7_ExactAverage ==
    /\ Len(docLengths) = Len(docs)
    /\ \A i \in 1..Len(docs) : docLengths[i] = Len(MapGet(DocTokensOf, docs[i], docTokens(docs[i])))
    /\ Len(docs) > 0 =>
           avgDocLength.num * Len(docs) = SumSeq(docLengths) * avgDocLength.den

\* add has just indexed a document whose length differs from the one before it
C7_Witness ==
    /\ call.op = "add"
    /\ Len(docs) >= 2
    /\ docLengths[Len(docs)] # docLengths[Len(docs) - 1]

\* one step keeps every document, every recorded length and every posting-list entry
\* written so far where it is
KeepsWhatIsWritten ==
    /\ Len(docs') >= Len(docs)
    /\ \A i \in 1..Len(docs) : docs'[i] = docs[i] /\ docLengths'[i] = docLengths[i]
    /\ \A t \in DOMAIN docIndices :
           /\ t \in DOMAIN docIndices'
           /\ Len(docIndices'[t]) >= Len(docIndices[t])
           /\ SubSeq(docIndices'[t], 1, Len(docIndices[t])) = docIndices[t]

\* a call of add puts its document at the next position, and every posting-list entry it
\* writes is that position
AddAppends ==
    call'.op = "add" /\ call' # call =>
        /\ docs' = Append(docs, call'.doc)
        /\ \A t \in DOMAIN docIndices' :
               \A i \in (Len(MapGet(docIndices, t, <<>>)) + 1)..Len(docIndices'[t]) :
                   docIndices'[t][i] = Len(docs)

\* C8: the index is append-only with stable positions: the n-th document added is at
\* position n - 1, no later add or search moves or changes a document, a recorded length
\* or a posting-list entry, and getDocs returns the documents in the order they were added
C8_AppendOnly ==
    [][/\ KeepsWhatIsWritten
       /\ AddAppends
       /\ call'.op = "getDocs" => call'.result = docs]_vars

\* getDocs has returned three documents, not all the same
C8_Witness ==
    /\ call.op = "getDocs"
    /\ Len(call.result) >= 3
    /\ call.result[1] # call.result[Len(call.result)]

\* C9: for every document of the index and every token, the argument of the IDF logarithm
\* is positive (the document frequency lying between 0 and the number of documents), the
\* denominator of the TF component is positive, and the score is a number that is not
\* negative
C9_ScoreWellDefined ==
    \A t \in Vocabulary :
        /\ MapGet(docFrequency, t, 0) >= 0
        /\ MapGet(docFrequency, t, 0) <= Len(docs)
        /\ IdfArg(This, t).num > 0
        /\ IdfArg(This, t).den > 0
        /\ \A i \in 1..Len(docs) :
               /\ ScoredAvgLen(This).num > 0
               /\ ScoredAvgLen(This).den > 0
               /\ TfComponent(This, docs[i], t, i - 1).den > 0
               /\ calculateBM25Score(This, docs[i], t, i - 1) \in Nat

\* a search has scored a document of an index that holds a document of length 0
C9_Witness ==
    /\ call.op = "search"
    /\ Len(call.result) >= 1
    /\ call.result[1].score > 0
    /\ \E i \in 1..Len(docs) : docLengths[i] = 0

\* the title boost the specification gives a page of n characters
TitleBoostTier(n) == IF n = 0 THEN 8 ELSE IF n < 800 THEN 5 ELSE 3

\* C10: the title boost is 8 for an empty page, 5 for a page of fewer than 800 characters
\* and 3 from 800 characters on, it multiplies the title's count in the weighted term
\* frequency, and a page without content gets a strictly larger weighted term frequency
\* from a title match than a page of LongLength characters with the same title and no
\* match in its body
C10_TitleBoost ==
    /\ call.op = "getTitleBoost" => call.boost = TitleBoostTier(Len(call.doc.content))
    /\ call.op = "weightedTf" =>
           /\ call.value = countOccurrences(call.doc.content, call.token)
                           + countOccurrences(call.doc.indexTitle, call.token)
                             * TitleBoostTier(Len(call.doc.content))
           /\ /\ Len(call.doc.content) = LongLength
              /\ countOccurrences(call.doc.indexTitle, call.token) > 0
              /\ countOccurrences(call.doc.content, call.token) = 0
              => weightedTf(Doc(call.doc.uri, call.doc.displayTitle, ""), call.token) > call.value

\* the weighted term frequency of a title match was computed for a page of LongLength
\* characters whose body does not hold the token
C10_Witness ==
    /\ call.op = "weightedTf"
    /\ Len(call.doc.content) = LongLength
    /\ countOccurrences(call.doc.indexTitle, call.token) > 0
    /\ countOccurrences(call.doc.content, call.token) = 0
    /\ call.value > 0

\* the parts of a text: its TOKEN_RE matches split on hyphens
TextParts(text) == SplitAll(MatchTokenRe(text))

\* C11: no token tokenize returns is a stopword or the empty string, and a text with no
\* part other than stopwords (the empty text among them) tokenizes to the empty sequence
C11_NoStopWordTokens ==
    call.op = "tokenize" =>
        /\ \A i \in 1..Len(call.tokens) : call.tokens[i] \notin STOP_WORDS /\ call.tokens[i] # ""
        /\ (\A i \in 1..Len(TextParts(call.text)) :
                toLowerCase(TextParts(call.text)[i]) \in STOP_WORDS) => call.tokens = <<>>

\* a camel-case word whose first sub-part is a stopword and whose whole stem is a stopword
\* was tokenized after a word whose stem is a stopword: only the second sub-part is left
C11_Witness ==
    /\ call.op = "tokenize"
    /\ call.text = "works workS"
    /\ call.tokens = <<"s">>

\* C12: a text that is one spelling, in any mix of upper and lower case, of a preserved
\* term w tokenizes to the one-element sequence [w]
C12_PreservedAlone ==
    call.op = "tokenize" /\ toLowerCase(call.text) \in PRESERVE_TERMS =>
        call.tokens = <<toLowerCase(call.text)>>

\* a spelling with a lower-to-upper transition inside was tokenized to the term alone
C12_Witness ==
    /\ call.op = "tokenize"
    /\ call.text = "McP"
    /\ HasCamelBoundary(call.text)
    /\ call.tokens = <<"mcp">>

\* url-validator.ts 34-37: a uri made absolute
AbsoluteUri(uri) ==
    IF StartsWithAt(uri, "http://", 1) \/ StartsWithAt(uri, "https://", 1) THEN uri
    ELSE IF StartsWithAt(uri, "/", 1) THEN "https://modelcontextprotocol.io" \o uri
    ELSE "https://modelcontextprotocol.io/" \o uri

C14_FailedFetchIsAnErrorResult ==
    [][/\ call'.op = "fetchMcpDoc" => (call'.isError <=> "error" \in DOMAIN call'.result)
       /\ linksLoaded /\ call'.op = "fetchMcpDoc" =>
            /\ ~call'.threw
            /\ ~IsCached(Cache, call'.uri) /\ (~validateUrl(call'.uri).ok \/ ~call'.response.ok) =>
                   call'.result = [url |-> call'.uri, title |-> "", content |-> "",
                                   error |-> "Failed to fetch document"]]_vars

\* with the links loaded, the request for a page of the allowed host failed and the tool
\* answered with the error result
C14_Witness ==
    /\ call.op = "fetchMcpDoc"
    /\ linksLoaded
    /\ ~call.threw
    /\ ~call.response.ok
    /\ call.requested = <<"https://modelcontextprotocol.io/docs/alpha">>
    /\ call.isError
    /\ call.result = [url |-> "/docs/alpha", title |-> "", content |-> "",
                      error |-> "Failed to fetch document"]

\* C16: the index holds titles only: in every state of the server, whatever pages were
\* fetched and cached, every indexed document is a link of llms.txt and has empty content
C16_TitlesOnly ==
    /\ \A i \in 1..Len(docs) : Len(docs[i].content) = 0
    /\ \A i \in 1..Len(docs) : docs[i].uri \in DOMAIN urlTitles

\* the page of an indexed document is cached with its content, the document being indexed
\* without any
C16_Witness ==
    \E i \in 1..Len(docs) :
        /\ IsCached(Cache, docs[i].uri)
        /\ Len(urlCache[docs[i].uri].content) > 0
        /\ Len(docs[i].content) = 0

\* C15: add does not raise, whatever fields the document lacks, and the document is added:
\* the index holds one length for every document
C15_AddNeverRaises ==
    /\ call.op = "addUntyped" => ~call.threw
    /\ Len(docLengths) = Len(docs)

\* what tokenize returns when the stemmed original of a camel-case part is withheld only
\* if the same part has emitted it: the parts from position i on, each tokenized alone
RECURSIVE EachPartAlone(_, _)
EachPartAlone(parts, i) ==
    IF i > Len(parts) THEN <<>>
    ELSE TokenizePart(parts[i], <<>>) \o EachPartAlone(parts, i + 1)

\* C17: the stem of a whole camel-case part is emitted after its sub-parts unless it is a
\* stopword or that same part has emitted it; what other parts or other matches of the
\* text have emitted does not matter
C17_DedupePerPart ==
    call.op = "tokenize" => call.tokens = EachPartAlone(TextParts(call.text), 1)

\* C18: no unigram of a text equals a bigram made of two of its unigrams, so that no key of
\* the index is a unigram and a bigram at once
C18_BigramsApart ==
    call.op = "generateBigrams" =>
        \A i \in 1..Len(call.unigrams), j \in 1..Len(call.bigrams) :
            call.unigrams[i] # call.bigrams[j]

\* C19: the scorer finds every token of a posting list in the document the list refers to:
\* the weighted term frequency is at least 1 and the score of the pair is positive
C19_PostedTokensScore ==
    \A t \in DOMAIN docIndices :
        \A p \in 1..Len(docIndices[t]) :
            /\ docWeightedTf(docs[docIndices[t][p] + 1], t) >= 1
            /\ calculateBM25Score(This, docs[docIndices[t][p] + 1], t, docIndices[t][p]) > 0

\* the positions the posting lists of the query's tokens (unigrams and bigrams) hold
Matching(query) ==
    UNION { {docIndices[t][p] : p \in 1..Len(docIndices[t])} :
            t \in SeqRange(MapGet(QueryTokensOf, query, queryTokens(query))) \cap DOMAIN docIndices }

\* C20: search returns no document but those at the positions the posting lists of the
\* query's tokens hold, each once and each a document that was added, and returns all of
\* them when k is at least their number
C20_ReturnsTheMatches ==
    call.op = "search" =>
        /\ \A i \in 1..Len(call.result) :
               /\ call.result[i].idx \in Matching(call.query)
               /\ call.result[i].idx + 1 \in 1..Len(docs)
               /\ call.result[i].doc = docs[call.result[i].idx + 1]
        /\ \A i, j \in 1..Len(call.result) : call.result[i].idx = call.result[j].idx => i = j
        /\ call.k >= Cardinality(Matching(call.query)) =>
               {call.result[i].idx : i \in 1..Len(call.result)} = Matching(call.query)

\* a search with k no less than the number of matches returned two documents, found by
\* different tokens of the query, and left out a third that holds no token of the query
C20_Witness ==
    /\ call.op = "search"
    /\ call.query = "alpha tools tools"
    /\ call.k >= Cardinality(Matching(call.query))
    /\ Len(call.result) = 2
    /\ Len(docs) = 3

\* the unigrams of the haystack of every document of the model, computed once
HaystackUnigrams == [d \in KnownDocs |-> tokenize(Haystack(d))]

\* the entries (token, place in the token's posting list) that point at position idx
EntriesFor(idx) ==
    UNION { {<<t, p>> : p \in {q \in 1..Len(docIndices[t]) : docIndices[t][q] = idx}} :
            t \in DOMAIN docIndices }

\* the tokens add derives for a document with the unigrams u: the unigrams, then the
\* Len(u) - 1 adjacent pairs in order, none when there are fewer than two unigrams
UnigramsThenPairs(u, tokens) ==
    /\ Len(tokens) = Len(u) + (IF Len(u) >= 1 THEN Len(u) - 1 ELSE 0)
    /\ \A j \in 1..Len(u) : tokens[j] = u[j]
    /\ \A j \in 1..(Len(u) - 1) : tokens[Len(u) + j] = u[j] \o "_" \o u[j + 1]

\* C21: for a document whose haystack has n unigrams add derives max(n - 1, 0) bigrams,
\* the adjacent pairs in order, and records the length n + max(n - 1, 0), duplicates
\* counted; the entries of the posting lists that point at the document are as many as
\* the recorded length
C21_LengthCountsEveryToken ==
    \A i \in 1..Len(docs) :
        /\ UnigramsThenPairs(HaystackUnigrams[docs[i]], DocTokensOf[docs[i]])
        /\ docLengths[i] = Len(HaystackUnigrams[docs[i]])
                           + (IF Len(HaystackUnigrams[docs[i]]) >= 1
                              THEN Len(HaystackUnigrams[docs[i]]) - 1 ELSE 0)
        /\ Cardinality(EntriesFor(i - 1)) = docLengths[i]

\* add has just indexed a document in which a token repeats, after a document of one
\* unigram and a document of none
C21_Witness ==
    /\ call.op = "add"
    /\ Len(docs) = 3
    /\ Len(HaystackUnigrams[docs[1]]) = 0
    /\ Len(HaystackUnigrams[docs[2]]) = 1
    /\ Len(HaystackUnigrams[docs[3]]) > Cardinality(SeqRange(HaystackUnigrams[docs[3]]))
    /\ docLengths[3] = 2 * Len(HaystackUnigrams[docs[3]]) - 1

\* the number of entries of token's posting list that point at position idx
EntriesOf(token, idx) ==
    Cardinality({p \in 1..Len(MapGet(docIndices, token, <<>>)) : docIndices[token][p] = idx})

\* the sum, over the query tokens qTokens[j..], of the entries for idx times the score
RECURSIVE ScoreSum(_, _, _)
ScoreSum(qTokens, j, idx) ==
    IF j > Len(qTokens) THEN 0
    ELSE EntriesOf(qTokens[j], idx) * calculateBM25Score(This, docs[idx + 1], qTokens[j], idx)
         + ScoreSum(qTokens, j + 1, idx)

\* C22: the total score of a returned document is the sum, over every occurrence of a
\* token in the query (unigrams and bigrams, a repeated token counted each time), of the
\* number of entries for the document in the token's posting list times the BM25 score of
\* the pair, and no document is returned twice
C22_TotalScore ==
    call.op = "search" =>
        /\ \A i \in 1..Len(call.result) :
               call.result[i].score
                   = ScoreSum(MapGet(QueryTokensOf, call.query, queryTokens(call.query)), 1,
                              call.result[i].idx)
        /\ \A i, j \in 1..Len(call.result) :
               i # j => call.result[i].idx # call.result[j].idx

\* a search whose query repeats a token returned a document that holds the token more
\* than once, with a positive score
C22_Witness ==
    /\ call.op = "search"
    /\ call.query = "alpha tools tools"
    /\ \E i \in 1..Len(call.result) :
           /\ EntriesOf("tool", call.result[i].idx) >= 2
           /\ call.result[i].score > 0
           /\ call.result[i].score
                  >= 2 * EntriesOf("tool", call.result[i].idx)
                       * calculateBM25Score(This, call.result[i].doc, "tool", call.result[i].idx)

\* C26: search is read-only and repeatable: a call leaves the documents, the posting
\* lists, the document frequencies, the lengths and the average as they were, and the
\* same search made again on the same index returns the same results, in the same order,
\* with the same scores
C26_SearchReadOnly ==
    [][call'.op = "search" =>
          /\ UNCHANGED <<docs, docIndices, docFrequency, docLengths, avgDocLength>>
          /\ call.op = "search" /\ call.query = call'.query /\ call.k = call'.k =>
                 call'.result = call.result]_vars

\* a search has ranked two documents, one of them with Markdown content, in an index of
\* three
C26_Witness ==
    /\ call.op = "search"
    /\ Len(docs) = 3
    /\ Len(call.result) = 2
    /\ \E i \in 1..2 : Len(call.result[i].doc.content) > 0
    /\ \E i \in 1..2 : Len(call.result[i].doc.content) = 0

\* C25: a load of llms.txt that fails leaves linksLoaded false and adds no document, so
\* that the next ensureReady makes the request again; once a load has succeeded, a later
\* ensureReady, called by main or by a tool, makes no request for llms.txt, adds no
\* document and does not fail
C25_LoadOnce ==
    [][/\ call'.op = "ensureReady" /\ call'.threw =>
              /\ call'.fetched
              /\ ~linksLoaded'
              /\ Len(docs') = 0
              /\ addCalls' = addCalls
       /\ call'.op = "ensureReady" /\ ~linksLoaded => call'.fetched
       /\ call'.op = "ensureReady" /\ linksLoaded => ~call'.fetched /\ ~call'.threw
       /\ linksLoaded =>
              /\ linksLoaded'
              /\ docs' = docs
              /\ addCalls' = addCalls
              /\ call'.op \in {"searchMcpDocs", "fetchMcpDoc"} => ~call'.threw]_vars

\* ensureReady has returned without a request, the two links of llms.txt being in the
\* index since an earlier load
C25_Witness ==
    /\ call.op = "ensureReady"
    /\ ~call.fetched
    /\ ~call.threw
    /\ linksLoaded
    /\ Len(docs) = 2
    /\ addCalls = 2

\* C23: however the ensureReady calls of the requests interleave, every link of llms.txt
\* is added to the index at most once: no two documents of the index have the same uri
C23_LinksAddedOnce ==
    \A i, j \in 1..Len(docs) : docs[i].uri = docs[j].uri => i = j

\* C24: a URL for which urlCache holds a fetched page keeps a fetched page: no ensurePage
\* that completes later, one that started before the page was cached and then failed
\* included, puts null in its place
C24_CachedPageStays ==
    [][\A url \in DOMAIN urlCache :
           urlCache[url] # Null => url \in DOMAIN urlCache' /\ urlCache'[url] # Null]_vars

====
